---- MODULE Spec2Model ----
(***************************************************************************)
(* Model of pysui's synchronous client, SuiClient                          *)
(* (pysui/sui/sui_clients/sync_client.py): the request execution and       *)
(* transaction signing pipeline.                                           *)
(*                                                                         *)
(* The client is synchronous and single threaded, so every entry point is  *)
(* one action.  The remote endpoint is the environment: each action draws  *)
(* the responses of the round trips it may issue from Responses.  The      *)
(* state keeps the client configuration and the record of the latest call: *)
(* its arguments, the ordered log of what it did (requests posted,         *)
(* signatures produced) and how it ended (an envelope returned or an       *)
(* exception that left the call).  transport_open tells whether the httpx  *)
(* transport is open, closes counts the calls of close().  A listing call  *)
(* takes one step per round trip: source is the paged provider it reads,   *)
(* pc the place the handler is at, frame its local variables.              *)
(*                                                                         *)
(* Code of the repository that the client calls but that is not part of    *)
(* the sources at hand (the envelope class, the builder catalog,           *)
(* _ClientMixin.sign_for_execution, the keyring lookup) is modelled from   *)
(* its documented interface.                                               *)
(*                                                                         *)
(* Python values are tagged records (field "type"), so that values of      *)
(* different Python types are never compared as TLA+ values of different   *)
(* sorts.                                                                  *)
(***************************************************************************)
EXTENDS Integers, Sequences, FiniteSets

VARIABLES request_type, transport_open, closes, op, args, log, outcome,
          source, pc, frame

vars == <<request_type, transport_open, closes, op, args, log, outcome,
          source, pc, frame>>

(***************************************************************************)
(* Bounds of the model.                                                    *)
(***************************************************************************)
\* number of distinct result payloads the endpoint may answer with
NumPayloads == 2
\* largest number of additional signers passed to a call
MaxSigners == 2
\* largest number of calls of close() on one client
MaxCloses == 2
\* largest number of pages of a paged provider
MaxPages == 2
\* largest number of chunks an identifier list of get_objects_for fills
MaxChunks == 3

Payloads == 1..NumPayloads

(***************************************************************************)
(* Python values.                                                          *)
(***************************************************************************)
None == [type |-> "None"]

\* a Python str, as the sequence of the fragments it is formatted from
Str(parts) == [type |-> "str", parts |-> parts]

\* a Python dict: items is a function from its keys
Dict(items) == [type |-> "dict", items |-> items]

\* key in d
HasKey(d, key) == key \in DOMAIN d.items

(***************************************************************************)
(* The remote endpoint.  A round trip ends in a connection failure or      *)
(* timeout (httpx.HTTPError), in a body that is not JSON (JSONDecodeError) *)
(* or in a JSON-RPC 2.0 body, which carries either "error" or "result".    *)
(***************************************************************************)
ErrorObjects == {[type |-> "error", code |-> 1, message |-> "rpc failure"]}

JsonBodies ==
    {[error |-> e] : e \in ErrorObjects} \cup {[result |-> p] : p \in Payloads}

TransportFaults == {"ConnectError", "ReadTimeout"}

Responses ==
    {[kind |-> "json", body |-> b] : b \in JsonBodies}
        \cup {[kind |-> "malformed", body |-> [msg |-> "Expecting value"]]}
        \cup {[kind |-> k, body |-> [request |-> "POST"]] : k \in TransportFaults}

\* every entry point of the pipeline issues at most this many round trips
MaxRoundTrips == 2

Networks == [1..MaxRoundTrips -> Responses]

(***************************************************************************)
(* Result envelope: SuiRpcResult(result_status, result_string, result_data)*)
(***************************************************************************)
SuiRpcResult(status, string, data) ==
    [is_ok |-> status, result_string |-> string, result_data |-> data]

\* how a call, or a step of it, ends
Ret(v) == [kind |-> "return", val |-> v]

Raise(e) == [kind |-> "raise", exc |-> e]

\* a step result: the context after the step and how it ended
Step(ctx, out) == [ctx |-> ctx, out |-> out]

\* the context a call starts in: the responses the endpoint will give, in
\* order, and whether the transport is open
Ctx0(net) == [net |-> net, next |-> 1, log |-> <<>>, open |-> transport_open]

\* the step ended in an exception
Raised(s) == s.out.kind = "raise"

Logged(ctx, event) == [ctx EXCEPT !.log = Append(@, event)]

(***************************************************************************)
(* Builders.  A builder is its RPC method name, whether the method needs a *)
(* signed transaction (txn_required), the signing authority, and for the   *)
(* two builders the client constructs itself the transaction bytes, the    *)
(* signatures and the request type they carry.                             *)
(***************************************************************************)
\* addresses with a keypair in the configuration
Keyring == {"a1", "a2"}

Addresses == Keyring \cup {"ax"}

\* the authority or request type of a builder that has none
Unset == "-"

Builder(name, txn, authority, tx_bytes, signatures, rtype) ==
    [name |-> name, txn_required |-> txn, authority |-> authority,
     tx_bytes |-> tx_bytes, signatures |-> signatures, request_type |-> rtype]

\* the builders a caller passes in: one that must be signed, one that is not
CallerBuilders ==
    {Builder("unsafe_transferSui", TRUE, a, None, <<>>, Unset) : a \in Addresses}
        \cup {Builder("sui_getObject", FALSE, Unset, None, <<>>, Unset)}

ExecuteTransaction(tx_bytes, signatures, rtype) ==
    Builder("sui_executeTransactionBlock", FALSE, Unset, tx_bytes, signatures, rtype)

DryRunTransaction(tx_bytes) ==
    Builder("sui_dryRunTransactionBlock", FALSE, Unset, tx_bytes, <<>>, Unset)

\* builder.handle_return(raw): the typed result of the builder's handler
handle_return(builder, raw) ==
    [type |-> "typed", handler |-> builder.name, value |-> raw]

PreExecutionResult(authority, pre_data) ==
    [type |-> "PreExecutionResult", authority |-> authority, pre_data |-> pre_data]

\* PreExecutionResult.tx_bytes
tx_bytes_of(pre) == [type |-> "SuiTxBytes", tx_bytes |-> pre.pre_data.value]

(***************************************************************************)
(* Signing.                                                                *)
(***************************************************************************)
\* kpair.new_sign_secure(tx_bytes): the signature of kpair over the bytes that
\* tx_bytes (a SuiTxBytes) wraps
new_sign_secure(kpair, tx_bytes) ==
    [type |-> "SuiSignature", signer |-> kpair, over |-> tx_bytes.tx_bytes]

SignEvent(sig) == [ev |-> "sign", signer |-> sig.signer, over |-> sig.over]

\* the signatures of the keypairs kpairs over tx_bytes, in the order of kpairs
SignAll(kpairs, tx_bytes) ==
    [i \in 1..Len(kpairs) |-> new_sign_secure(kpairs[i], tx_bytes)]

LoggedAll(ctx, sigs) ==
    [ctx EXCEPT !.log = @ \o [i \in 1..Len(sigs) |-> SignEvent(sigs[i])]]

\* multi_sig.sign(tx_bytes, pub_keys): a signature, or an error code
MultiSig_sign(multi_sig, tx_bytes) ==
    IF multi_sig.signs
    THEN new_sign_secure(multi_sig.name, tx_bytes)
    ELSE [type |-> "int", code |-> "1"]

\* the addresses of addrs that config.keypair_for_address does not know
Unknown(addrs) == {i \in 1..Len(addrs) : addrs[i] \notin Keyring}

(***************************************************************************)
(* SuiClient._execute: post the request, wrap what came back.  A closed    *)
(* httpx client sends nothing and raises RuntimeError, which _execute does *)
(* not catch.                                                              *)
(***************************************************************************)
post(ctx, builder) ==
    LET resp == ctx.net[ctx.next]
    IN  [ctx |-> [Logged(ctx, [ev |-> "post", builder |-> builder, resp |-> resp])
                    EXCEPT !.next = @ + 1],
         resp |-> resp]

_execute(ctx, builder) ==
    LET p == post(ctx, builder)
        r == p.resp
    IN  IF ~ctx.open
        THEN Step(ctx, Raise("RuntimeError"))
        ELSE Step(p.ctx,
                  Ret(CASE r.kind = "json" ->
                             SuiRpcResult(TRUE, None, Dict(r.body))
                        [] r.kind = "malformed" ->
                             SuiRpcResult(FALSE,
                                          Str(<<"JSON Decoder Error ", r.body.msg>>),
                                          Dict(r.body))
                        [] OTHER ->
                             SuiRpcResult(FALSE, Str(<<"HTTPX error: ", r.kind>>),
                                          Dict(r.body))))

\* d[key] of a Python dict inside a step: KeyError when the key is absent
GetItem(d, key) ==
    IF HasKey(d, key) THEN Ret(d.items[key]) ELSE Raise("KeyError")

(***************************************************************************)
(* SuiClient.execute_no_sign                                               *)
(***************************************************************************)
\* the branch of a builder that requires signing: the no-sign round trip
no_sign_round_trip(ctx, builder) ==
    LET s == _execute(ctx, builder)
        result == s.out.val
    IN  IF Raised(s) THEN s
        ELSE IF result.is_ok
        THEN IF HasKey(result.result_data, "error")
             THEN Step(s.ctx,
                       Ret(SuiRpcResult(FALSE,
                               Str(<<result.result_data.items["error"].message>>),
                               None)))
             ELSE Step(s.ctx,
                       Ret(SuiRpcResult(TRUE, None,
                               PreExecutionResult(builder.authority,
                                   handle_return(builder,
                                       result.result_data.items["result"])))))
        ELSE s

\* execute_no_sign without the txn_required test
execute_no_sign_unguarded(ctx, builder) == no_sign_round_trip(ctx, builder)

execute_no_sign(ctx, builder) ==
    IF builder.txn_required
    THEN no_sign_round_trip(ctx, builder)
    ELSE Step(ctx,
              Ret(SuiRpcResult(FALSE,
                      Str(<<"execute_no_sign is used only with transaction types">>),
                      None)))

(***************************************************************************)
(* _ClientMixin.sign_for_execution: the builder's authority and then each  *)
(* additional signer is resolved to its keypair and signs tx_bytes; the    *)
(* result is the execute-transaction builder with the client's request     *)
(* type.  An address without a keypair makes the lookup raise.             *)
(***************************************************************************)
sign_for_execution(ctx, rtype, tx_bytes, builder, additional_signers) ==
    LET signers_list == <<builder.authority>> \o additional_signers
        sig_list == SignAll(signers_list, tx_bytes)
    IN  IF Unknown(signers_list) # {}
        THEN Step(ctx, Raise("UnknownAddress"))
        ELSE Step(LoggedAll(ctx, sig_list),
                  Ret(ExecuteTransaction(tx_bytes, sig_list, rtype)))

(***************************************************************************)
(* SuiClient._multi_signed_execution                                       *)
(***************************************************************************)
\* the second round trip: post the signed execute request, wrap the answer
signed_round_trip(ctx, exec_builder) ==
    LET s == _execute(ctx, exec_builder)
        result == s.out.val
    IN  IF Raised(s) THEN s
        ELSE IF result.is_ok /\ ~HasKey(result.result_data, "error")
        THEN Step(s.ctx,
                  Ret(SuiRpcResult(TRUE, None,
                          handle_return(exec_builder,
                              result.result_data.items["result"]))))
        ELSE LET e == GetItem(result.result_data, "error")
             IN  IF e.kind = "raise"
                 THEN Step(s.ctx, e)
                 ELSE Step(s.ctx, Ret(SuiRpcResult(FALSE, e.val, None)))

\* _multi_signed_execution that stops after the no-sign round trip
_multi_signed_execution_no_submit(ctx, rtype, builder, additional_signers) ==
    execute_no_sign(ctx, builder)

\* _multi_signed_execution that submits without signing
_multi_signed_execution_unsigned(ctx, rtype, builder, additional_signers) ==
    LET s1 == execute_no_sign(ctx, builder)
    IN  IF Raised(s1) THEN s1
        ELSE IF s1.out.val.is_ok
        THEN signed_round_trip(s1.ctx,
                 ExecuteTransaction(tx_bytes_of(s1.out.val.result_data), <<>>, rtype))
        ELSE s1

_multi_signed_execution(ctx, rtype, builder, additional_signers) ==
    LET s1 == execute_no_sign(ctx, builder)
    IN  IF Raised(s1) THEN s1
        ELSE IF s1.out.val.is_ok
        THEN LET s2 == sign_for_execution(s1.ctx, rtype,
                           tx_bytes_of(s1.out.val.result_data),
                           builder, additional_signers)
             IN  IF s2.out.kind = "raise"
                 THEN s2
                 ELSE signed_round_trip(s2.ctx, s2.out.val)
        ELSE s1

(***************************************************************************)
(* SuiClient.execute                                                       *)
(***************************************************************************)
\* the failure envelope of a response that carries an error field
\* protocol_failure that keeps the response as the data of the failure
protocol_failure_keeps_data(result) ==
    SuiRpcResult(FALSE, result.result_data.items["error"], result.result_data)

\* protocol_failure that hands the response through as a success
protocol_failure_as_success(result) ==
    SuiRpcResult(TRUE, None, result.result_data)

protocol_failure(result) ==
    SuiRpcResult(FALSE, result.result_data.items["error"], None)

execute(ctx, rtype, builder, additional_signatures) ==
    IF ~builder.txn_required
    THEN LET s == _execute(ctx, builder)
             result == s.out.val
         IN  IF Raised(s) THEN s
             ELSE IF result.is_ok
             THEN IF HasKey(result.result_data, "error")
                  THEN Step(s.ctx, Ret(protocol_failure(result)))
                  ELSE Step(s.ctx,
                            Ret(SuiRpcResult(TRUE, None,
                                    handle_return(builder,
                                        result.result_data.items["result"]))))
             ELSE s
    ELSE _multi_signed_execution(ctx, rtype, builder, additional_signatures)

(***************************************************************************)
(* SuiClient.execute_with_multisig.  signers holds keypairs: the code      *)
(* calls new_sign_secure on each element of signers.array.                 *)
(***************************************************************************)
\* sig_array with the aggregate signature appended last
multisig_sig_array_aggregate_last(new_sig, signers, tx_bytes) ==
    SignAll(signers, tx_bytes) \o <<new_sig>>

\* sig_array: the aggregate signature, then one signature per signer
multisig_sig_array(new_sig, signers, tx_bytes) ==
    <<new_sig>> \o SignAll(signers, tx_bytes)

\* multisig_submit that returns the signed bytes without executing them
multisig_submit_skipped(ctx, rtype, tx_bytes, sig_array) ==
    Step(ctx, Ret(SuiRpcResult(TRUE, None, tx_bytes)))

\* build the execute-transaction request and execute it
multisig_submit(ctx, rtype, tx_bytes, sig_array) ==
    execute(ctx, rtype,
            ExecuteTransaction(tx_bytes, sig_array, "WaitForLocalExecution"), <<>>)

\* signing_failure that raises instead of returning the failure
signing_failure_raised(ctx, new_sig) == Step(ctx, Raise("SigningError"))

\* the aggregate signing step gave new_sig, which is no signature
signing_failure(ctx, new_sig) ==
    Step(ctx,
         Ret(SuiRpcResult(FALSE, Str(<<"Signing error code ", new_sig.code>>), None)))

execute_with_multisig(ctx, rtype, builder, multi_sig, signers) ==
    IF builder.txn_required
    THEN LET s1 == execute_no_sign(ctx, builder)
             result == s1.out.val
         IN  IF Raised(s1) THEN s1
             ELSE IF result.is_ok
             THEN LET tx_bytes == tx_bytes_of(result.result_data)
                      new_sig == MultiSig_sign(multi_sig, tx_bytes)
                  IN  IF new_sig.type = "SuiSignature"
                      THEN LET sig_array ==
                                   multisig_sig_array(new_sig, signers, tx_bytes)
                           IN  multisig_submit(LoggedAll(s1.ctx, sig_array), rtype,
                                               tx_bytes, sig_array)
                      ELSE signing_failure(s1.ctx, new_sig)
             ELSE s1
    ELSE _execute(ctx, builder)

(***************************************************************************)
(* SuiClient.sign_and_submit                                               *)
(***************************************************************************)
\* sign_and_submit_builder with fixed execution semantics
sign_and_submit_builder_fixed(tx_bytes, sigs, rtype) ==
    ExecuteTransaction(tx_bytes, sigs, "WaitForLocalExecution")

\* the execute-transaction request for the signed bytes
sign_and_submit_builder(tx_bytes, sigs, rtype) ==
    ExecuteTransaction(tx_bytes, sigs, rtype)

sign_and_submit(ctx, rtype, signer, tx_bytes, additional_signatures) ==
    LET signers_list == <<signer>> \o additional_signatures
    IN  IF Unknown(signers_list) # {}
        THEN Step(ctx, Raise("UnknownAddress"))
        ELSE LET sigs == SignAll(signers_list, tx_bytes)
                 builder == sign_and_submit_builder(tx_bytes, sigs, rtype)
                 s == _execute(LoggedAll(ctx, sigs), builder)
                 result == s.out.val
             IN  IF Raised(s) THEN s
                 ELSE IF result.is_ok /\ ~HasKey(result.result_data, "error")
                 THEN Step(s.ctx,
                           Ret(SuiRpcResult(TRUE, None,
                                   handle_return(builder,
                                       result.result_data.items["result"]))))
                 ELSE s

(***************************************************************************)
(* SuiClient.dry_run                                                       *)
(***************************************************************************)
\* dry_run that submits the bytes for execution instead of a dry run
dry_run_submit_executes(ctx, rtype, tx_bytes) ==
    execute(ctx, rtype, ExecuteTransaction(tx_bytes, <<>>, rtype), <<>>)

\* execute the dry-run request for the bytes of the no-sign response
dry_run_submit(ctx, rtype, tx_bytes) ==
    execute(ctx, rtype, DryRunTransaction(tx_bytes), <<>>)

dry_run(ctx, rtype, builder) ==
    IF builder.txn_required
    THEN LET s1 == execute_no_sign(ctx, builder)
             result == s1.out.val
         IN  IF Raised(s1) THEN s1
             ELSE IF result.is_ok
             THEN dry_run_submit(s1.ctx, rtype, tx_bytes_of(result.result_data))
             ELSE s1
    ELSE Step(ctx,
              Ret(SuiRpcResult(FALSE,
                      Str(<<"dry_run is used only with transaction types">>),
                      None)))

(***************************************************************************)
(* The paged provider of the listings.  A source has N pages; page i holds *)
(* i items; its next_cursor is absent or names the page it leads to; its   *)
(* has_next_page flag may be left out.  A request without a cursor is      *)
(* answered by page 1, a request with a cursor by the page it names.       *)
(***************************************************************************)
Cursor(k) == [type |-> "cursor", page |-> k]

Cursors(N) == {None} \cup {Cursor(k) : k \in 1..N}

Items(i) == [j \in 1..i |-> [page |-> i, item |-> j]]

\* the pages a provider of N pages may hold at position i
PagesAt(N, i) ==
    {[data |-> Items(i), next_cursor |-> c, has_next_page |-> h] :
         c \in Cursors(N), h \in BOOLEAN}
    \cup {[data |-> Items(i), next_cursor |-> c] : c \in Cursors(N)}

Sources ==
    UNION {{src \in [1..N -> UNION {PagesAt(N, i) : i \in 1..N}] :
                \A i \in 1..N : src[i] \in PagesAt(N, i)} : N \in 1..MaxPages}

NoSource == <<>>

\* the page the provider src sends for the request builder
page_for(src, builder) ==
    IF builder.cursor = None THEN src[1] ELSE src[builder.cursor.page]

PageResponse(src, builder) ==
    [kind |-> "json", body |-> [result |-> page_for(src, builder)]]

\* the responses that are no JSON body with a result
FailureResponses ==
    {r \in Responses : ~(r.kind = "json" /\ "result" \in DOMAIN r.body)}

\* the responses a page request to src may get
PageResponses(src, builder) == {PageResponse(src, builder)} \cup FailureResponses

\* the client's page-size ceiling
max_gets == 50

\* the responses the balance request may get
BalanceResponses ==
    {[kind |-> "json", body |-> [result |-> [coin_object_count |-> n]]] :
         n \in {max_gets, max_gets + 1}}
    \cup FailureResponses

\* the listing builders; GetCoins and GetObjectsOwnedByAddress have a cursor
GetCoinTypeBalance == [name |-> "suix_getBalance", txn_required |-> FALSE]

GetCoins(cursor) ==
    [name |-> "suix_getCoins", txn_required |-> FALSE, cursor |-> cursor]

GetObjectsOwnedByAddress(cursor) ==
    [name |-> "suix_getOwnedObjects", txn_required |-> FALSE, cursor |-> cursor]

\* the attributes of a typed page
next_cursor(page) == page.value.next_cursor

has_next_page(page) ==
    IF "has_next_page" \in DOMAIN page.value
    THEN page.value.has_next_page
    ELSE FALSE

data(page) == page.value.data

\* truth value of an optional cursor
Truthy(v) == v.type # "None"

\* SuiCoinObjects.from_dict({"data": accumer, "next_cursor": None})
SuiCoinObjects(accumer) ==
    [type |-> "typed", handler |-> "suix_getCoins",
     value |-> [data |-> accumer, next_cursor |-> None]]

\* ObjectReadPage.from_dict({... has_next_page False, next_cursor None}) with
\* data set to accumer
ObjectReadPage(accumer) ==
    [type |-> "typed", handler |-> "suix_getOwnedObjects",
     value |-> [data |-> accumer, next_cursor |-> None, has_next_page |-> FALSE]]

\* handle_result: the data of a successful result, ValueError otherwise
handle_result(s) ==
    IF Raised(s) THEN s
    ELSE IF s.out.val.is_ok
    THEN Step(s.ctx, Ret(s.out.val.result_data))
    ELSE Step(s.ctx, Raise("ValueError"))

(***************************************************************************)
(* A listing whose provider never ends its chain of cursors loops without  *)
(* end.  To keep the state finite the log records the first LogCap events  *)
(* of a call and the accumulator the first AccCap items.  A call that      *)
(* returns an accumulated result has read each page once at most (the      *)
(* provider answers a cursor always by the same page, and the loops decide *)
(* by the page alone), so neither limit is reached in a call that returns. *)
(***************************************************************************)
LogCap == MaxPages + 3

AccCap == MaxPages * MaxPages

Capped(events) ==
    IF Len(events) <= LogCap THEN events ELSE SubSeq(events, 1, LogCap)

\* extend that appends the items twice
extend_twice(accumer, items) ==
    IF Len(accumer) + 2 * Len(items) <= AccCap
    THEN accumer \o items \o items
    ELSE accumer

\* accumer.extend(items)
extend(accumer, items) ==
    IF Len(accumer) + Len(items) <= AccCap THEN accumer \o items ELSE accumer

\* the context of one more round trip of the running call
Ctx1(resp) ==
    [net |-> <<resp>>, next |-> 1, log |-> log, open |-> transport_open]

NoFrame == [builder |-> GetCoinTypeBalance, page |-> None, accumer |-> <<>>]

\* the handler goes on at place p with the local variables fr
Going(p, fr) == [pc |-> p, frame |-> fr, out |-> [kind |-> "none"]]

\* the handler ended with out
Done(out) == [pc |-> "idle", frame |-> NoFrame, out |-> out]

\* with_cursor that leaves the cursor of the builder as it is
with_cursor_kept(builder, page) == builder

\* builder.cursor = page.next_cursor
with_cursor(builder, page) == [builder EXCEPT !.cursor = next_cursor(page)]

(***************************************************************************)
(* SuiClient._get_coins_for_type, the body of get_gas and get_coin         *)
(***************************************************************************)
\* the condition that makes the coin listing accumulate all pages
coins_fetch_all(limit, fetch_all) == limit > max_gets /\ fetch_all

\* the condition of the loop of the coin listing
coins_more(gasses) == Truthy(next_cursor(gasses))

\* after gasses = handle_result(...): extend the accumulator, loop or return
coins_accumulated(h, fr) ==
    IF Raised(h) THEN Done(h.out)
    ELSE LET gasses == h.out.val
             accumer == extend(fr.accumer, data(gasses))
         IN  IF coins_more(gasses)
             THEN Going("coins_loop",
                        [fr EXCEPT !.page = gasses, !.accumer = accumer])
             ELSE Done(Ret(SuiRpcResult(TRUE, Str(<<>>), SuiCoinObjects(accumer))))

\* the balance request came back as s
coins_balance(s) ==
    IF Raised(s) THEN Done(s.out)
    ELSE IF s.out.val.is_ok
    THEN Going("coins_first",
               [builder |-> GetCoins(None),
                limit |-> s.out.val.result_data.value.coin_object_count,
                page |-> None, accumer |-> <<>>])
    ELSE Done(s.out)

\* the first page request came back as s
coins_first_page(s, fr, fetch_all) ==
    IF coins_fetch_all(fr.limit, fetch_all)
    THEN coins_accumulated(handle_result(s), fr)
    ELSE Done(s.out)

(***************************************************************************)
(* SuiClient.get_objects                                                   *)
(***************************************************************************)
\* objects_fetch_all that does not look at fetch_all
objects_fetch_all_always(page, fetch_all) == Truthy(next_cursor(page))

\* the condition that makes the object listing accumulate all pages
objects_fetch_all(page, fetch_all) == Truthy(next_cursor(page)) /\ fetch_all

\* objects_more that does not look at has_next_page
objects_more_cursor_only(objects) == Truthy(next_cursor(objects))

\* the condition of the loop of the object listing
objects_more(objects) == Truthy(next_cursor(objects)) /\ has_next_page(objects)

\* objects is the latest page and accumer holds its data: loop or return
objects_accumulated(objects, accumer, fr) ==
    IF objects_more(objects)
    THEN Going("objects_loop", [fr EXCEPT !.page = objects, !.accumer = accumer])
    ELSE Done(Ret(SuiRpcResult(TRUE, Str(<<>>), ObjectReadPage(accumer))))

\* the first request came back as s
objects_first_page(s, fr, fetch_all) ==
    IF Raised(s) THEN Done(s.out)
    ELSE IF s.out.val.is_ok
    THEN LET objects == s.out.val.result_data
         IN  IF objects_fetch_all(objects, fetch_all)
             THEN objects_accumulated(objects, extend(<<>>, data(objects)), fr)
             ELSE Done(s.out)
    ELSE Done(s.out)

\* a request of the loop came back as h, after handle_result
objects_next_page(h, fr) ==
    IF Raised(h) THEN Done(h.out)
    ELSE objects_accumulated(h.out.val, extend(fr.accumer, data(h.out.val)), fr)

(***************************************************************************)
(* SuiClient.get_gas_from_faucet: one post to the faucet endpoint.  The    *)
(* body of its response is a dict with or without an error field, or null. *)
(***************************************************************************)
FixedAmountRequest ==
    [name |-> "FixedAmountRequest", txn_required |-> FALSE, url |-> "faucet_url"]

FaucetBodies ==
    {Dict([error |-> None, transferred_gas_objects |-> p]) : p \in Payloads}
    \cup {Dict([error |-> Str(<<"faucet refused">>)])}
    \cup {Dict([transferred_gas_objects |-> p]) : p \in Payloads}
    \cup {None}

FaucetResponses ==
    {[kind |-> "json", body |-> b] : b \in FaucetBodies}
    \cup {r \in Responses : r.kind # "json"}

\* FaucetGasRequest.from_dict(result)
FaucetGasRequest(result) ==
    [type |-> "typed", handler |-> "FaucetGasRequest", value |-> result.items]

\* the faucet's JSON body is result: the lines inside the try block
faucet_result(result) ==
    IF result.type = "None"
    THEN Ret(SuiRpcResult(FALSE, Str(<<"Type error">>), Dict(<<>>)))
    ELSE LET error == GetItem(result, "error")
         IN  IF error.kind = "raise" THEN error
             ELSE IF error.val = None
             THEN Ret(SuiRpcResult(TRUE, None, FaucetGasRequest(result)))
             ELSE Ret(SuiRpcResult(FALSE, error.val, None))

get_gas_from_faucet(ctx) ==
    LET p == post(ctx, FixedAmountRequest)
        r == p.resp
    IN  IF ~ctx.open
        THEN Step(ctx, Raise("RuntimeError"))
        ELSE Step(p.ctx,
                  CASE r.kind = "json" -> faucet_result(r.body)
                    [] r.kind = "malformed" ->
                         Ret(SuiRpcResult(FALSE,
                                          Str(<<"JSON Decoder Error ", r.body.msg>>),
                                          Dict(r.body)))
                    [] r.kind = "ReadTimeout" ->
                         Ret(SuiRpcResult(FALSE, Str(<<"HTTP read timeout error">>),
                                          Dict(r.body)))
                    [] OTHER -> Raise(r.kind))

(***************************************************************************)
(* SuiClient.get_objects_for.  The identifiers of a call are 1..n; the     *)
(* endpoint answers a request by one object per identifier asked for, or   *)
(* by a failure.                                                           *)
(***************************************************************************)
\* the lengths of the identifier lists: around the multiples of max_gets
IdentifierCounts ==
    {0, 1} \cup {k * max_gets : k \in 1..MaxChunks}
           \cup {k * max_gets + 1 : k \in 1..(MaxChunks - 1)}

Identifiers(n) == [i \in 1..n |-> i]

GetMultipleObjects(object_ids) ==
    [name |-> "sui_multiGetObjects", txn_required |-> FALSE,
     object_ids |-> object_ids]

\* how the endpoint answers one request of get_objects_for
ChunkAnswers == {[kind |-> "objects"]} \cup FailureResponses

ObjectsOf(object_ids) ==
    [i \in 1..Len(object_ids) |-> [objectId |-> object_ids[i]]]

\* the context in which the endpoint gives answer to the request builder
Asked(ctx, answer, builder) ==
    [ctx EXCEPT !.next = 1,
                !.net = <<IF answer.kind = "objects"
                          THEN [kind |-> "json",
                                body |-> [result |-> ObjectsOf(builder.object_ids)]]
                          ELSE answer>>]

\* partition(in_list, size): the consecutive chunks of size elements, the
\* last one holding the rest
partition(in_list, size) ==
    [k \in 1..((Len(in_list) + size - 1) \div size) |->
        SubSeq(in_list, (k - 1) * size + 1,
               IF k * size <= Len(in_list) THEN k * size ELSE Len(in_list))]

\* a Python list
List(elements) == [type |-> "list", elements |-> elements]

\* accum_extend that puts the result in front
accum_extend_front(accum, result) == result.value \o accum

\* accum.extend(result): the elements of the typed list result are appended
accum_extend(accum, result) == accum \o result.value

\* the for loop from chunk k on
RECURSIVE get_objects_for_chunks(_, _, _, _, _, _)
get_objects_for_chunks(ctx, rtype, answers, chunks, k, accum) ==
    IF k > Len(chunks)
    THEN Step(ctx, Ret(SuiRpcResult(TRUE, None, List(accum))))
    ELSE LET builder == GetMultipleObjects(chunks[k])
             h == handle_result(execute(Asked(ctx, answers[k], builder),
                                        rtype, builder, <<>>))
         IN  IF Raised(h) THEN h
             ELSE get_objects_for_chunks(h.ctx, rtype, answers, chunks, k + 1,
                                         accum_extend(accum, h.out.val))

get_objects_for(ctx, rtype, answers, identifiers) ==
    IF Len(identifiers) > max_gets
    THEN get_objects_for_chunks(ctx, rtype, answers,
                                partition(identifiers, max_gets), 1, <<>>)
    ELSE LET builder == GetMultipleObjects(identifiers)
         IN  execute(Asked(ctx, answers[1], builder), rtype, builder, <<>>)

(***************************************************************************)
(* The client.  request_type is the constructor's default execution        *)
(* semantics; op, args, log and outcome describe the latest call.          *)
(***************************************************************************)
RequestTypes == {"WaitForLocalExecution", "WaitForEffectsCert"}

\* sequences of at most MaxSigners elements of S
SeqsUpTo(S) == UNION {[1..n -> S] : n \in 0..MaxSigners}

MultiSigs == {[name |-> "msig", signs |-> b] : b \in BOOLEAN}

NoBuilder == Builder(Unset, FALSE, Unset, None, <<>>, Unset)

NoArgs ==
    [builder |-> NoBuilder, signers |-> <<>>, multi_sig |-> [name |-> Unset, signs |-> FALSE],
     signer |-> Unset, tx_bytes |-> None, fetch_all |-> FALSE,
     identifiers |-> <<>>]

TxBytes == {[type |-> "SuiTxBytes", tx_bytes |-> p] : p \in Payloads}

Init ==
    /\ request_type \in RequestTypes
    /\ transport_open = TRUE
    /\ closes = 0
    /\ op = "init"
    /\ args = NoArgs
    /\ log = <<>>
    /\ outcome = [kind |-> "none"]
    /\ source = NoSource
    /\ pc = "idle"
    /\ frame = NoFrame

\* No entry point reads anything an earlier call wrote (the calls read the
\* configuration and the transport only), so a behaviour follows one request
\* call on a client that was at most closed before.
Fresh == op \in {"init", "close"}

\* the latest call becomes the call of name with arguments a that ended as step
Called(name, a, step) ==
    /\ op' = name
    /\ args' = a
    /\ log' = step.ctx.log
    /\ outcome' = step.out
    /\ UNCHANGED <<request_type, transport_open, closes, source, pc, frame>>

Execute ==
    /\ Fresh
    /\ \E b \in CallerBuilders, sg \in SeqsUpTo(Addresses), net \in Networks :
           Called("execute", [NoArgs EXCEPT !.builder = b, !.signers = sg],
                  execute(Ctx0(net), request_type, b, sg))

ExecuteNoSign ==
    /\ Fresh
    /\ \E b \in CallerBuilders, net \in Networks :
           Called("execute_no_sign", [NoArgs EXCEPT !.builder = b],
                  execute_no_sign(Ctx0(net), b))

ExecuteWithMultisig ==
    /\ Fresh
    /\ \E b \in CallerBuilders, m \in MultiSigs, sg \in SeqsUpTo(Keyring),
          net \in Networks :
           Called("execute_with_multisig",
                  [NoArgs EXCEPT !.builder = b, !.multi_sig = m, !.signers = sg],
                  execute_with_multisig(Ctx0(net), request_type, b, m, sg))

SignAndSubmit ==
    /\ Fresh
    /\ \E a \in Addresses, t \in TxBytes, sg \in SeqsUpTo(Addresses),
          net \in Networks :
           Called("sign_and_submit",
                  [NoArgs EXCEPT !.signer = a, !.tx_bytes = t, !.signers = sg],
                  sign_and_submit(Ctx0(net), request_type, a, t, sg))

DryRun ==
    /\ Fresh
    /\ \E b \in CallerBuilders, net \in Networks :
           Called("dry_run", [NoArgs EXCEPT !.builder = b],
                  dry_run(Ctx0(net), request_type, b))

(***************************************************************************)
(* SuiClient.close: self._client.close(), which does nothing on a client   *)
(* that is closed already, and self._transport_open = False.  It returns   *)
(* nothing.                                                                *)
(***************************************************************************)
\* close that toggles the transport
close_toggles(open) == ~open

\* the transport after close()
close(open) == FALSE

Close ==
    /\ Fresh
    /\ closes < MaxCloses
    /\ transport_open' = close(transport_open)
    /\ closes' = closes + 1
    /\ op' = "close"
    /\ args' = NoArgs
    /\ log' = <<>>
    /\ outcome' = Ret(None)
    /\ UNCHANGED <<request_type, source, pc, frame>>

GetObjectsFor ==
    /\ Fresh
    /\ \E n \in IdentifierCounts, answers \in [1..MaxChunks -> ChunkAnswers] :
           Called("get_objects_for",
                  [NoArgs EXCEPT !.identifiers = Identifiers(n)],
                  get_objects_for(Ctx0(<<>>), request_type, answers,
                                  Identifiers(n)))

GetGasFromFaucet ==
    /\ Fresh
    /\ \E resp \in FaucetResponses :
           Called("get_gas_from_faucet", NoArgs, get_gas_from_faucet(Ctx1(resp)))

\* the running listing call made the round trip s and goes on as r
Stepped(s, r) ==
    /\ log' = Capped(s.ctx.log)
    /\ pc' = r.pc
    /\ frame' = r.frame
    /\ outcome' = r.out
    /\ UNCHANGED <<request_type, transport_open, closes>>

\* get_gas, get_coin: the balance request of _get_coins_for_type
GetCoinsStart ==
    /\ Fresh
    /\ \E src \in Sources, fetch_all \in BOOLEAN, resp \in BalanceResponses :
           LET s == execute(Ctx1(resp), request_type, GetCoinTypeBalance, <<>>)
           IN  /\ op' = "get_coins"
               /\ args' = [NoArgs EXCEPT !.fetch_all = fetch_all]
               /\ source' = src
               /\ Stepped(s, coins_balance(s))

\* the first page request of _get_coins_for_type
GetCoinsFirstPage ==
    /\ pc = "coins_first"
    /\ \E resp \in PageResponses(source, frame.builder) :
           LET s == execute(Ctx1(resp), request_type, frame.builder, <<>>)
           IN  /\ Stepped(s, coins_first_page(s, frame, args.fetch_all))
               /\ UNCHANGED <<op, args, source>>

\* one turn of the loop of _get_coins_for_type
GetCoinsNextPage ==
    /\ pc = "coins_loop"
    /\ LET builder == with_cursor(frame.builder, frame.page)
       IN  \E resp \in PageResponses(source, builder) :
               LET s == execute(Ctx1(resp), request_type, builder, <<>>)
               IN  /\ Stepped(s, coins_accumulated(handle_result(s),
                                                   [frame EXCEPT !.builder = builder]))
                   /\ UNCHANGED <<op, args, source>>

\* get_objects up to its first request
GetObjectsStart ==
    /\ Fresh
    /\ \E src \in Sources, fetch_all \in BOOLEAN :
           LET builder == GetObjectsOwnedByAddress(None)
           IN  \E resp \in PageResponses(src, builder) :
                   LET s == execute(Ctx1(resp), request_type, builder, <<>>)
                   IN  /\ op' = "get_objects"
                       /\ args' = [NoArgs EXCEPT !.fetch_all = fetch_all]
                       /\ source' = src
                       /\ Stepped(s, objects_first_page(
                                         s, [NoFrame EXCEPT !.builder = builder],
                                         fetch_all))

\* one turn of the loop of get_objects
GetObjectsNextPage ==
    /\ pc = "objects_loop"
    /\ LET builder == with_cursor(frame.builder, frame.page)
       IN  \E resp \in PageResponses(source, builder) :
               LET s == execute(Ctx1(resp), request_type, builder, <<>>)
               IN  /\ Stepped(s, objects_next_page(handle_result(s),
                                                   [frame EXCEPT !.builder = builder]))
                   /\ UNCHANGED <<op, args, source>>

Next ==
    \/ Close
    \/ Execute
    \/ ExecuteNoSign
    \/ ExecuteWithMultisig
    \/ SignAndSubmit
    \/ DryRun
    \/ GetCoinsStart
    \/ GetCoinsFirstPage
    \/ GetCoinsNextPage
    \/ GetObjectsStart
    \/ GetObjectsNextPage
    \/ GetGasFromFaucet
    \/ GetObjectsFor

Spec == Init /\ [][Next]_vars

\* The client is synchronous: a listing call that is at a round trip makes it.
FairSpec ==
    /\ Init
    /\ [][Next]_vars
    /\ WF_vars(GetCoinsFirstPage)
    /\ WF_vars(GetCoinsNextPage)
    /\ WF_vars(GetObjectsNextPage)

(***************************************************************************)
(* Observations of the latest call.                                        *)
(***************************************************************************)
\* the paginated listings: get_gas and get_coin, get_objects
ListingOps == {"get_coins", "get_objects"}

\* the pipeline entry points
RequestOps ==
    {"execute", "execute_no_sign", "execute_with_multisig", "sign_and_submit",
     "dry_run"}

IsPost(e) == e.ev = "post"

IsSign(e) == e.ev = "sign"

\* the requests the call posted, in order
Posts == SelectSeq(log, IsPost)

RoundTrips == Len(Posts)

\* the call returned a result envelope (close returns None)
Returned == outcome.kind = "return" /\ op # "close"

\* a round trip succeeded: a JSON body without an error field
RespOk(resp) == resp.kind = "json" /\ "error" \notin DOMAIN resp.body

RespProtocolError(resp) == resp.kind = "json" /\ "error" \in DOMAIN resp.body

IsExecuteTransaction(b) == b.name = "sui_executeTransactionBlock"

Transactional == args.builder.txn_required

(***************************************************************************)
(* C1: execute_no_sign and dry_run on a builder that does not require      *)
(* signing return the NotTransactional failure envelope and issue no round *)
(* trip, whatever the endpoint would have answered.                        *)
(***************************************************************************)
C1_NotTransactional ==
    (op \in {"execute_no_sign", "dry_run"} /\ ~Transactional)
        => /\ Returned
           /\ ~outcome.val.is_ok
           /\ outcome.val.result_string =
                  Str(<<IF op = "dry_run"
                        THEN "dry_run is used only with transaction types"
                        ELSE "execute_no_sign is used only with transaction types">>)
           /\ outcome.val.result_data = None
           /\ RoundTrips = 0

C1_Witness ==
    /\ op = "execute_no_sign"
    /\ ~Transactional
    /\ Returned
    /\ ~outcome.val.is_ok
    /\ log = <<>>

(***************************************************************************)
(* C2 as stated: execute on a builder that requires signing issues exactly *)
(* two round trips and never returns the Pre-Execution Result as data.     *)
(***************************************************************************)
C2_Original ==
    (op = "execute" /\ Transactional /\ transport_open)
        => /\ RoundTrips = 2
           /\ Returned => outcome.val.result_data.type # "PreExecutionResult"

\* every signer of the call (the builder's authority, the additional signers)
\* has a keypair
SignersKnown ==
    /\ args.builder.authority \in Keyring
    /\ \A i \in 1..Len(args.signers) : args.signers[i] \in Keyring

(***************************************************************************)
(* C2 amended: execute on a builder that requires signing first posts the  *)
(* builder itself (the no-sign request); it posts a second request, the    *)
(* execute-transaction request, exactly when the no-sign round trip        *)
(* succeeded and every signer has a keypair, and never a third; the data   *)
(* of a returned envelope is never the Pre-Execution Result.               *)
(***************************************************************************)
C2_Amended ==
    (op = "execute" /\ Transactional /\ transport_open)
        => /\ RoundTrips \in {1, 2}
           /\ Posts[1].builder = args.builder
           /\ RoundTrips = 2 <=> (RespOk(Posts[1].resp) /\ SignersKnown)
           /\ RoundTrips = 2 => IsExecuteTransaction(Posts[2].builder)
           /\ Returned => outcome.val.result_data.type # "PreExecutionResult"

C2_Witness ==
    /\ op = "execute"
    /\ Transactional
    /\ RoundTrips = 2
    /\ Returned
    /\ outcome.val.is_ok
    /\ outcome.val.result_data.type = "typed"
    /\ outcome.val.result_data.handler = "sui_executeTransactionBlock"

(***************************************************************************)
(* C3: in execute on a builder that requires signing the events are        *)
(* ordered construct, sign, execute.  The first event posts the builder.   *)
(* A signature is produced only after a no-sign response that succeeded,   *)
(* and over the bytes of that response.  A further request is the last     *)
(* event, is preceded by at least one signature, is the                    *)
(* execute-transaction request, and carries those bytes and exactly the    *)
(* signatures produced, in order.  After a failed no-sign round trip       *)
(* nothing else happens.                                                   *)
(***************************************************************************)
C3_ConstructSignExecute ==
    (op = "execute" /\ Transactional /\ transport_open)
        => /\ Len(log) >= 1
           /\ IsPost(log[1])
           /\ log[1].builder = args.builder
           /\ ~RespOk(log[1].resp) => Len(log) = 1
           /\ \A i \in 2..Len(log) :
                 IsSign(log[i])
                     => /\ RespOk(log[1].resp)
                        /\ log[i].over = log[1].resp.body.result
           /\ \A j \in 2..Len(log) :
                 IsPost(log[j])
                     => /\ j = Len(log)
                        /\ j > 2
                        /\ \A i \in 2..(j - 1) : IsSign(log[i])
                        /\ IsExecuteTransaction(log[j].builder)
                        /\ log[j].builder.tx_bytes.tx_bytes = log[1].resp.body.result
                        /\ Len(log[j].builder.signatures) = j - 2
                        /\ \A i \in 1..(j - 2) :
                              /\ log[j].builder.signatures[i].signer = log[i + 1].signer
                              /\ log[j].builder.signatures[i].over = log[i + 1].over

C3_Witness ==
    /\ op = "execute"
    /\ Transactional
    /\ Len(args.signers) = 1
    /\ Len(log) = 4
    /\ IsSign(log[2])
    /\ IsSign(log[3])
    /\ IsPost(log[4])
    /\ log[4].builder.tx_bytes.tx_bytes = 2

(***************************************************************************)
(* C4: execute on a builder that does not require signing, when the        *)
(* endpoint answers a JSON body: a body with an error field gives the      *)
(* failure envelope carrying that error, any other body the success        *)
(* envelope whose data is the builder's interpretation of the result.      *)
(***************************************************************************)
C4_DirectExecute ==
    (op = "execute" /\ ~Transactional /\ RoundTrips >= 1
        /\ Posts[1].resp.kind = "json")
        => /\ Returned
           /\ RoundTrips = 1
           /\ IF "error" \in DOMAIN Posts[1].resp.body
              THEN /\ ~outcome.val.is_ok
                   /\ outcome.val.result_string = Posts[1].resp.body.error
                   /\ outcome.val.result_data = None
              ELSE /\ outcome.val.is_ok
                   /\ outcome.val.result_string = None
                   /\ outcome.val.result_data.type = "typed"
                   /\ outcome.val.result_data.handler = args.builder.name
                   /\ outcome.val.result_data.value = Posts[1].resp.body.result

C4_Witness ==
    /\ op = "execute"
    /\ ~Transactional
    /\ RoundTrips = 1
    /\ RespProtocolError(Posts[1].resp)
    /\ Returned
    /\ ~outcome.val.is_ok

(***************************************************************************)
(* C5 as stated: whatever the entry point and the round trip, a body that  *)
(* is not JSON ends the call with the returned DecodeError failure         *)
(* envelope, and a connection failure or timeout with the returned         *)
(* TransportError failure envelope; no exception leaves the call.          *)
(***************************************************************************)
C5_FaultsAreEnvelopes ==
    op \in RequestOps => \A i \in 1..RoundTrips :
        LET resp == Posts[i].resp
        IN  /\ resp.kind = "malformed"
                => /\ Returned
                   /\ ~outcome.val.is_ok
                   /\ outcome.val.result_string =
                          Str(<<"JSON Decoder Error ", resp.body.msg>>)
            /\ resp.kind \in TransportFaults
                => /\ Returned
                   /\ ~outcome.val.is_ok
                   /\ outcome.val.result_string = Str(<<"HTTPX error: ", resp.kind>>)

(***************************************************************************)
(* C6 as stated: a round trip answered by a JSON body with an error field  *)
(* makes the entry point return a failure envelope.                        *)
(***************************************************************************)
C6_ProtocolErrorFails ==
    op \in RequestOps => \A i \in 1..RoundTrips :
        RespProtocolError(Posts[i].resp) => (Returned /\ ~outcome.val.is_ok)

(***************************************************************************)
(* C7 as stated: a returned envelope has exactly one of error and data     *)
(* populated: a success has data and no error, a failure has an error and  *)
(* no data.                                                                *)
(***************************************************************************)
\* a field of an envelope holds something: neither None nor the empty string
\* nor the empty dict
Populated(v) == v.type # "None" /\ v # Str(<<>>) /\ v # Dict(<<>>)

C7_Original ==
    Returned
        => /\ outcome.val.is_ok
               => /\ Populated(outcome.val.result_data)
                  /\ ~Populated(outcome.val.result_string)
           /\ ~outcome.val.is_ok
               => /\ Populated(outcome.val.result_string)
                  /\ ~Populated(outcome.val.result_data)

\* the latest round trip of the call ended in a transport or decode fault
LastRoundTripFaulted ==
    /\ RoundTrips >= 1
    /\ Posts[RoundTrips].resp.kind \in TransportFaults \cup {"malformed"}

(***************************************************************************)
(* C7 amended: a returned success envelope has data and no error; a        *)
(* returned failure envelope has an error, and it has data only when it    *)
(* reports the transport or decode fault of the call's latest round trip,  *)
(* and then the data are the diagnostic fields of that fault.              *)
(***************************************************************************)
C7_Amended ==
    Returned
        => /\ outcome.val.is_ok
               => /\ Populated(outcome.val.result_data)
                  /\ ~Populated(outcome.val.result_string)
           /\ ~outcome.val.is_ok
               => /\ Populated(outcome.val.result_string)
                  /\ Populated(outcome.val.result_data)
                         => /\ LastRoundTripFaulted
                            /\ outcome.val.result_data =
                                   Dict(Posts[RoundTrips].resp.body)

C7_Witness ==
    /\ op = "execute"
    /\ Returned
    /\ ~outcome.val.is_ok
    /\ Populated(outcome.val.result_string)
    /\ Populated(outcome.val.result_data)
    /\ LastRoundTripFaulted

(***************************************************************************)
(* C8 as stated: no retries.  Once a round trip of a call has failed       *)
(* (transport, decode or protocol error) the call posts nothing more and   *)
(* hands that failure to the caller as its returned failure envelope.      *)
(***************************************************************************)
C8_NoRetryFailureSurfaced ==
    op \in RequestOps => \A i \in 1..RoundTrips :
        ~RespOk(Posts[i].resp)
            => /\ i = RoundTrips
               /\ Returned
               /\ ~outcome.val.is_ok

\* the call went through every step of the multisig flow
MultisigFlowSucceeded ==
    /\ op = "execute_with_multisig"
    /\ Transactional
    /\ Returned
    /\ outcome.val.is_ok

(***************************************************************************)
(* C9 as stated: a multisig flow in which every step succeeds issues       *)
(* exactly three round trips.                                              *)
(***************************************************************************)
C9_Original == MultisigFlowSucceeded => RoundTrips = 3

(***************************************************************************)
(* C9 amended: a multisig flow in which every step succeeds issues exactly *)
(* two round trips: it posts the builder (the no-sign request), then       *)
(* signs, then posts the execute-transaction request.                      *)
(***************************************************************************)
C9_Amended ==
    MultisigFlowSucceeded
        => /\ RoundTrips = 2
           /\ IsPost(log[1])
           /\ log[1].builder = args.builder
           /\ \A i \in 2..(Len(log) - 1) : IsSign(log[i])
           /\ Len(log) >= 3
           /\ IsPost(log[Len(log)])
           /\ IsExecuteTransaction(log[Len(log)].builder)

C9_Witness ==
    /\ MultisigFlowSucceeded
    /\ RoundTrips = 2
    /\ RespOk(Posts[1].resp)
    /\ RespOk(Posts[2].resp)
    /\ outcome.val.result_data.handler = "sui_executeTransactionBlock"

\* the multisig call submitted an execute-transaction request
MultisigSubmitted ==
    /\ op = "execute_with_multisig"
    /\ Transactional
    /\ RoundTrips = 2

(***************************************************************************)
(* C10: the execute-transaction request of execute_with_multisig with k    *)
(* additional signers carries 1 + k signatures: the aggregate signature    *)
(* first, then the additional signers' in the caller's order, every one    *)
(* over the transaction bytes of the no-sign response, which are also the  *)
(* bytes the request carries.                                              *)
(***************************************************************************)
C10_SignatureSet ==
    MultisigSubmitted
        => LET sigs == Posts[2].builder.signatures
               bytes == Posts[1].resp.body.result
           IN  /\ IsExecuteTransaction(Posts[2].builder)
               /\ Posts[2].builder.tx_bytes.tx_bytes = bytes
               /\ Len(sigs) = 1 + Len(args.signers)
               /\ sigs[1].signer = args.multi_sig.name
               /\ \A i \in 1..Len(args.signers) :
                     sigs[i + 1].signer = args.signers[i]
               /\ \A i \in 1..Len(sigs) : sigs[i].over = bytes

C10_Witness ==
    /\ MultisigSubmitted
    /\ args.signers = <<"a2", "a1">>
    /\ Len(Posts[2].builder.signatures) = 3
    /\ Posts[2].builder.signatures[2].signer = "a2"
    /\ Posts[2].builder.signatures[3].signer = "a1"
    /\ Posts[1].resp.body.result = 2

\* the call signed nothing
NothingSigned == \A i \in 1..Len(log) : ~IsSign(log[i])

\* execute_with_multisig built the transaction and the aggregate signing
\* step gave an error code
AggregateSigningFailed ==
    /\ op = "execute_with_multisig"
    /\ Transactional
    /\ RoundTrips >= 1
    /\ RespOk(Posts[1].resp)
    /\ ~args.multi_sig.signs

(***************************************************************************)
(* C11: when the aggregate signing step of execute_with_multisig gives a   *)
(* non-signature, the call returns the signing failure instead of raising, *)
(* no additional signer signs, and the no-sign round trip is the only      *)
(* request: no execute-transaction request is sent.                        *)
(***************************************************************************)
C11_SigningFailureReturned ==
    AggregateSigningFailed
        => /\ Returned
           /\ ~outcome.val.is_ok
           /\ outcome.val.result_string = Str(<<"Signing error code ", "1">>)
           /\ NothingSigned
           /\ RoundTrips = 1
           /\ Posts[1].builder = args.builder

C11_Witness ==
    /\ AggregateSigningFailed
    /\ Len(args.signers) = 2
    /\ Returned
    /\ ~outcome.val.is_ok
    /\ RoundTrips = 1

\* the signer addresses of a sign_and_submit call all have a keypair
SubmitSignersKnown ==
    /\ args.signer \in Keyring
    /\ \A i \in 1..Len(args.signers) : args.signers[i] \in Keyring

\* a request made after close() whose arguments the client accepts
RequestAfterClose ==
    /\ op \in RequestOps \cup ListingOps
    /\ ~transport_open
    /\ op = "sign_and_submit" => SubmitSignersKnown

(***************************************************************************)
(* C17: a request made after close() ends with a failure envelope and      *)
(* reaches no network endpoint.                                            *)
(***************************************************************************)
C17_FailsCleanlyAfterClose ==
    RequestAfterClose
        => /\ Returned
           /\ ~outcome.val.is_ok
           /\ RoundTrips = 0

(***************************************************************************)
(* C18: a second or later close() raises nothing and leaves the client as  *)
(* the first close left it: transport closed, configuration unchanged.     *)
(***************************************************************************)
C18_CloseIdempotent ==
    [][(closes >= 1 /\ closes' = closes + 1)
          => /\ outcome' = Ret(None)
             /\ ~transport_open'
             /\ transport_open' = transport_open
             /\ request_type' = request_type]_vars

C18_Witness ==
    /\ op = "close"
    /\ closes = 2
    /\ ~transport_open
    /\ outcome = Ret(None)

(***************************************************************************)
(* C19: dry_run on a builder that requires signing posts the builder (the  *)
(* no-sign request) and then, exactly when that round trip succeeded, the  *)
(* dry-run request for the transaction bytes of the no-sign response; it   *)
(* signs nothing, posts no execute-transaction request, and returns the    *)
(* failure of a failed no-sign round trip without a second request.        *)
(***************************************************************************)
C19_DryRunNeverSubmits ==
    (op = "dry_run" /\ Transactional /\ transport_open)
        => /\ NothingSigned
           /\ \A i \in 1..RoundTrips : ~IsExecuteTransaction(Posts[i].builder)
           /\ RoundTrips >= 1
           /\ Posts[1].builder = args.builder
           /\ IF RespOk(Posts[1].resp)
              THEN /\ RoundTrips = 2
                   /\ Posts[2].builder =
                          DryRunTransaction([type |-> "SuiTxBytes",
                                             tx_bytes |-> Posts[1].resp.body.result])
              ELSE /\ RoundTrips = 1
                   /\ Returned
                   /\ ~outcome.val.is_ok

C19_Witness ==
    /\ op = "dry_run"
    /\ Transactional
    /\ RoundTrips = 2
    /\ Posts[1].resp.body.result = 2
    /\ Posts[2].builder.name = "sui_dryRunTransactionBlock"
    /\ Posts[2].builder.tx_bytes.tx_bytes = 2
    /\ Returned
    /\ outcome.val.is_ok

(***************************************************************************)
(* C20: sign_and_submit with a signer and k co-signers that have keypairs  *)
(* makes exactly one round trip: an execute-transaction request with the   *)
(* caller's transaction bytes, 1 + k signatures over those bytes (the      *)
(* signer's first, the co-signers' in the caller's order) and the client's *)
(* configured request type.                                                *)
(***************************************************************************)
C20_SubmitOnce ==
    (op = "sign_and_submit" /\ SubmitSignersKnown /\ transport_open)
        => /\ RoundTrips = 1
           /\ LET b == Posts[1].builder
                  sigs == b.signatures
              IN  /\ IsExecuteTransaction(b)
                  /\ b.tx_bytes = args.tx_bytes
                  /\ b.request_type = request_type
                  /\ Len(sigs) = 1 + Len(args.signers)
                  /\ sigs[1].signer = args.signer
                  /\ \A i \in 1..Len(args.signers) :
                        sigs[i + 1].signer = args.signers[i]
                  /\ \A i \in 1..Len(sigs) :
                        sigs[i].over = args.tx_bytes.tx_bytes

C20_Witness ==
    /\ op = "sign_and_submit"
    /\ request_type = "WaitForEffectsCert"
    /\ args.signer = "a1"
    /\ args.signers = <<"a2", "a1">>
    /\ RoundTrips = 1
    /\ Posts[1].builder.request_type = "WaitForEffectsCert"
    /\ Len(Posts[1].builder.signatures) = 3
    /\ Posts[1].builder.signatures[2].signer = "a2"

(***************************************************************************)
(* Observations of a listing call.                                         *)
(***************************************************************************)
IsPagePost(e) ==
    IsPost(e) /\ e.builder.name \in {"suix_getCoins", "suix_getOwnedObjects"}

\* the page requests the call posted, in order
PagePosts == SelectSeq(log, IsPagePost)

PageRequests == Len(PagePosts)

\* the log holds every event of the call
LogComplete == Len(log) < LogCap

\* every request of the call was answered by a JSON body with a result
AllAnswered == \A i \in 1..RoundTrips : RespOk(Posts[i].resp)

\* the listing call has ended
Ended == op \in ListingOps /\ pc = "idle"

\* a source of N pages: every page but the last leads to the next page and
\* says that there is one, the last page has no cursor
WellChained(src) ==
    /\ Len(src) >= 1
    /\ \A i \in 1..(Len(src) - 1) :
          /\ src[i].next_cursor = Cursor(i + 1)
          /\ "has_next_page" \in DOMAIN src[i]
          /\ src[i].has_next_page
    /\ src[Len(src)].next_cursor = None

\* the items of the pages 1..n of src, in page order
RECURSIVE ItemsUpTo(_, _)
ItemsUpTo(src, n) ==
    IF n = 0 THEN <<>> ELSE ItemsUpTo(src, n - 1) \o src[n].data

\* the flag of a page as the provider sent it
Flagged(raw) == "has_next_page" \in DOMAIN raw /\ raw.has_next_page

(***************************************************************************)
(* C12 as stated: against a well-chained source of N pages whose requests  *)
(* are all answered, a coin listing or object listing with fetch_all       *)
(* returns a success whose data are the items of all N pages in page       *)
(* order.                                                                  *)
(***************************************************************************)
C12_AllPagesConcatenated ==
    (Ended /\ transport_open /\ args.fetch_all /\ WellChained(source)
       /\ AllAnswered)
        => /\ Returned
           /\ outcome.val.is_ok
           /\ data(outcome.val.result_data) = ItemsUpTo(source, Len(source))

(***************************************************************************)
(* C13: without fetch_all a listing whose requests are answered makes one  *)
(* page request, without a cursor, and returns the first page as the       *)
(* provider sent it, whatever next_cursor and has_next_page that page      *)
(* carries.                                                                *)
(***************************************************************************)
C13_FirstPageOnly ==
    (op \in ListingOps /\ ~args.fetch_all)
        => /\ PageRequests <= 1
           /\ (Ended /\ transport_open /\ AllAnswered)
                 => /\ PageRequests = 1
                    /\ PagePosts[1].builder.cursor = None
                    /\ Returned
                    /\ outcome.val.is_ok
                    /\ outcome.val.result_data =
                           handle_return(PagePosts[1].builder, source[1])

C13_Witness ==
    /\ Ended
    /\ ~args.fetch_all
    /\ Len(source) = 2
    /\ source[1].next_cursor = Cursor(2)
    /\ Flagged(source[1])
    /\ PageRequests = 1
    /\ Returned
    /\ outcome.val.is_ok
    /\ data(outcome.val.result_data) = Items(1)

(***************************************************************************)
(* C14: against a well-chained source of N pages a listing makes at most   *)
(* N + 1 page requests, and once it has made N it has ended; the last      *)
(* page may leave has_next_page out.                                       *)
(***************************************************************************)
C14_LoopEndsWithinPages ==
    (op \in ListingOps /\ WellChained(source))
        => /\ PageRequests <= Len(source) + 1
           /\ PageRequests >= Len(source) => pc = "idle"

C14_Witness ==
    /\ Ended
    /\ args.fetch_all
    /\ WellChained(source)
    /\ Len(source) = 2
    /\ "has_next_page" \notin DOMAIN source[2]
    /\ PageRequests = 2
    /\ Returned
    /\ outcome.val.is_ok
    /\ data(outcome.val.result_data) = Items(1) \o Items(2)

\* every page of the source carries a cursor and says there is a next page
NeverEnding(src) ==
    /\ Len(src) >= 1
    /\ \A i \in 1..Len(src) : Truthy(src[i].next_cursor) /\ Flagged(src[i])

(***************************************************************************)
(* C15 as stated: a listing against a provider whose pages all carry a     *)
(* next_cursor and has_next_page true still ends.                          *)
(***************************************************************************)
C15_BoundedPagination ==
    (op \in ListingOps /\ NeverEnding(source)) ~> Ended

\* the page the latest page request was answered by
LastPage == PagePosts[PageRequests].resp.body.result

\* the listing accumulates and its latest page request was answered
Accumulating ==
    /\ op \in ListingOps
    /\ args.fetch_all
    /\ LogComplete
    /\ PageRequests >= 1
    /\ AllAnswered
    /\ op = "get_coins" => Posts[1].resp.body.result.coin_object_count > max_gets
    /\ op = "get_objects" => Truthy(PagePosts[1].resp.body.result.next_cursor)

(***************************************************************************)
(* C16: an accumulating coin listing goes on to a further page request     *)
(* exactly when the latest page has a next_cursor; an accumulating object  *)
(* listing exactly when the latest page has a next_cursor and              *)
(* has_next_page true, so after a page with a cursor and has_next_page     *)
(* false it makes at most one page request more.                           *)
(***************************************************************************)
C16_StoppingConditions ==
    Accumulating
        => /\ op = "get_coins"
                => (pc = "coins_loop" <=> Truthy(LastPage.next_cursor))
           /\ op = "get_objects"
                => /\ pc = "objects_loop"
                       <=> (Truthy(LastPage.next_cursor) /\ Flagged(LastPage))
                   /\ \A i \in 1..PageRequests :
                         ~Flagged(PagePosts[i].resp.body.result)
                             => PageRequests <= i + 1

C16_Witness ==
    /\ Ended
    /\ op = "get_objects"
    /\ Accumulating
    /\ PageRequests = 2
    /\ Truthy(LastPage.next_cursor)
    /\ "has_next_page" \in DOMAIN LastPage
    /\ ~LastPage.has_next_page
    /\ Returned
    /\ data(outcome.val.result_data) = Items(1) \o Items(2)

\* a sign_and_submit call one of whose addresses has no keypair
SubmitSignerUnknown == op = "sign_and_submit" /\ ~SubmitSignersKnown

(***************************************************************************)
(* C21 as stated: sign_and_submit with a signer or co-signer address that  *)
(* the keyring does not hold returns a failure envelope, signs nothing and *)
(* posts nothing.                                                          *)
(***************************************************************************)
C21_UnknownAddressReturned ==
    SubmitSignerUnknown
        => /\ Returned
           /\ ~outcome.val.is_ok
           /\ NothingSigned
           /\ RoundTrips = 0

\* what execute gives for the builder of the call and the response of its
\* first round trip
SameCallOfExecute ==
    execute([net |-> <<Posts[1].resp>>, next |-> 1, log |-> <<>>,
             open |-> transport_open],
            request_type, args.builder, <<>>).out

(***************************************************************************)
(* C26 as stated: for a builder that needs no signing execute_with_multisig *)
(* makes one round trip, signs nothing and ends as execute ends for the    *)
(* same builder and the same response.                                     *)
(***************************************************************************)
C26_MultisigAsExecute ==
    (op = "execute_with_multisig" /\ ~Transactional /\ transport_open)
        => /\ RoundTrips = 1
           /\ NothingSigned
           /\ outcome = SameCallOfExecute

\* the items of the responses to the page requests 1..n, in request order
RECURSIVE ItemsFetched(_)
ItemsFetched(n) ==
    IF n = 0 THEN <<>>
    ELSE ItemsFetched(n - 1) \o PagePosts[n].resp.body.result.data

\* the listing accumulates, its page requests were all answered, and log and
\* accumulator hold everything
AccumulationRecorded ==
    /\ Accumulating
    /\ Len(ItemsFetched(PageRequests)) <= AccCap

(***************************************************************************)
(* C24: in an accumulating listing the first page request has no cursor,   *)
(* every later page request is the same request with the next_cursor of    *)
(* the response just before it, and the accumulator (and the data of the   *)
(* accumulated result) holds the items of every response once, in request  *)
(* order.                                                                  *)
(***************************************************************************)
C24_CursorChain ==
    AccumulationRecorded
        => /\ PagePosts[1].builder.cursor = None
           /\ \A i \in 2..PageRequests :
                 /\ PagePosts[i].builder.name = PagePosts[1].builder.name
                 /\ PagePosts[i].builder.cursor =
                        PagePosts[i - 1].resp.body.result.next_cursor
           /\ pc # "idle" => frame.accumer = ItemsFetched(PageRequests)
           /\ pc = "idle"
                 => /\ Returned
                    /\ outcome.val.is_ok
                    /\ data(outcome.val.result_data) = ItemsFetched(PageRequests)

C24_Witness ==
    /\ AccumulationRecorded
    /\ op = "get_coins"
    /\ pc = "idle"
    /\ PageRequests = 2
    /\ PagePosts[1].resp.body.result.next_cursor = Cursor(2)
    /\ PagePosts[2].builder.cursor = Cursor(2)
    /\ data(outcome.val.result_data) = Items(1) \o Items(2)

(***************************************************************************)
(* C25 as stated: with fetch_all, a listing whose first page carries a     *)
(* next_cursor follows it and returns the items of all pages, whatever     *)
(* coin_object_count the balance response of a coin listing reports.       *)
(***************************************************************************)
C25_FollowsFirstCursor ==
    (Ended /\ transport_open /\ args.fetch_all /\ AllAnswered
       /\ WellChained(source) /\ Truthy(source[1].next_cursor))
        => /\ PageRequests = Len(source)
           /\ Returned
           /\ outcome.val.is_ok
           /\ data(outcome.val.result_data) = ItemsUpTo(source, Len(source))

\* the faucet answered with a dict whose error field is null
FaucetGranted(resp) ==
    /\ resp.kind = "json"
    /\ resp.body.type = "dict"
    /\ HasKey(resp.body, "error")
    /\ resp.body.items["error"] = None

(***************************************************************************)
(* C22 as stated: get_gas_from_faucet posts one request to the faucet and  *)
(* returns an envelope whatever comes back: a success with the typed       *)
(* receipt when the error field of the response is null, a failure         *)
(* otherwise (error not null, no error field, body that is not JSON,       *)
(* connection failure, timeout).                                           *)
(***************************************************************************)
C22_FaucetAlwaysEnvelope ==
    (op = "get_gas_from_faucet" /\ transport_open)
        => /\ RoundTrips = 1
           /\ Posts[1].builder = FixedAmountRequest
           /\ Returned
           /\ outcome.val.is_ok <=> FaucetGranted(Posts[1].resp)
           /\ outcome.val.is_ok
                 => outcome.val.result_data = FaucetGasRequest(Posts[1].resp.body)

\* the identifiers of the requests 1..n of the call, in request order
RECURSIVE IdsAsked(_)
IdsAsked(n) ==
    IF n = 0 THEN <<>> ELSE IdsAsked(n - 1) \o Posts[n].builder.object_ids

\* the results of the requests 1..n of the call, in request order
RECURSIVE ObjectsSent(_)
ObjectsSent(n) ==
    IF n = 0 THEN <<>> ELSE ObjectsSent(n - 1) \o Posts[n].resp.body.result

\* the number of chunks of max_gets identifiers that n identifiers fill
ChunksOf(n) == (n + max_gets - 1) \div max_gets

\* the elements of the data of a get_objects_for result
ObjectsReturned(v) == IF v.type = "list" THEN v.elements ELSE v.value

LastRequestFailed ==
    /\ RoundTrips >= 1
    /\ ~RespOk(Posts[RoundTrips].resp)
    /\ \A i \in 1..(RoundTrips - 1) : RespOk(Posts[i].resp)

\* a request failed while the call was accumulating: a page request of a
\* coin listing that accumulates, a follow-up page request of an object
\* listing, a chunk request of get_objects_for
FailedWhileAccumulating ==
    /\ transport_open
    /\ LastRequestFailed
    /\ \/ /\ op = "get_coins"
          /\ args.fetch_all
          /\ PageRequests >= 1
          /\ Posts[1].resp.body.result.coin_object_count > max_gets
       \/ /\ op = "get_objects"
          /\ args.fetch_all
          /\ PageRequests >= 2
       \/ /\ op = "get_objects_for"
          /\ Len(args.identifiers) > max_gets

(***************************************************************************)
(* C23 as stated: when a request fails while a coin listing, an object     *)
(* listing or get_objects_for accumulates, the call returns a failure      *)
(* envelope.                                                               *)
(***************************************************************************)
C23_FailureWhileAccumulatingReturned ==
    FailedWhileAccumulating => (Returned /\ ~outcome.val.is_ok)

====
